---- MODULE Spec2Model ----
(***************************************************************************)
(* A model of the YouTube-to-flashcards service: the video id parser, the  *)
(* metadata fetch, the caption fallback chain, transcript assembly, the    *)
(* flashcard generator and the HTTP handler that strings them together.    *)
(*                                                                         *)
(* Strings the code inspects character by character (URLs, video ids) are  *)
(* sequences of one-character strings, so that `in`, re.search and         *)
(* re.match are computed the way Python computes them.                     *)
(***************************************************************************)
EXTENDS Integers, Sequences, FiniteSets, TLC

(***************************************************************************)
(* Bounds of the model.                                                    *)
(***************************************************************************)
\* the longest track list the caption source (or the watch page) offers
MaxTracks == 2
MaxSegments == 3
MaxCards == 2
MaxRequests == 2
\* the most pieces a text given to clean_transcript is made of
MaxPieces == 5

(***************************************************************************)
(* String literals of the source.                                          *)
(***************************************************************************)
LitYoutuBe == <<"y", "o", "u", "t", "u", ".", "b", "e">>
LitYoutuBeSlash == <<"y", "o", "u", "t", "u", ".", "b", "e", "/">>
LitYoutubeCom == <<"y", "o", "u", "t", "u", "b", "e", ".", "c", "o", "m">>
LitVEq == <<"v", "=">>
LitEmbed == <<"e", "m", "b", "e", "d", "/">>
LitHttp == <<"h", "t", "t", "p", ":", "/", "/">>
LitHttps == <<"h", "t", "t", "p", "s", ":", "/", "/">>
LitWww == <<"w", "w", "w", ".">>
LitYoutube == <<"y", "o", "u", "t", "u", "b", "e">>
LitYoutu == <<"y", "o", "u", "t", "u">>
LitNocookie == <<"y", "o", "u", "t", "u", "b", "e", "-", "n", "o", "c", "o", "o", "k", "i", "e">>
LitCom == <<"c", "o", "m">>
LitBe == <<"b", "e">>
LitWatchV == <<"w", "a", "t", "c", "h", "?", "v", "=">>
LitVSlash == <<"v", "/">>
LitQV == <<"?", "v", "=">>
LitWatchUrl == <<"h", "t", "t", "p", "s", ":", "/", "/", "w", "w", "w", ".", "y", "o", "u", "t", "u", "b", "e", ".", "c", "o", "m", "/", "w", "a", "t", "c", "h", "?", "v", "=">>

\* the length of a video id: the {11} of every pattern in extract_video_id
IdLen == 11

\* the character class [0-9A-Za-z_-]
IdChars ==
  {"0","1","2","3","4","5","6","7","8","9",
   "A","B","C","D","E","F","G","H","I","J","K","L","M",
   "N","O","P","Q","R","S","T","U","V","W","X","Y","Z",
   "a","b","c","d","e","f","g","h","i","j","k","l","m",
   "n","o","p","q","r","s","t","u","v","w","x","y","z",
   "_","-"}

\* Python's None where a string is expected; no string the code returns is empty
None == <<>>

(***************************************************************************)
(* Python string primitives.                                               *)
(***************************************************************************)
Min(S) == CHOOSE x \in S : \A y \in S : x <= y

\* s[i:i+len(lit)] == lit
HasAt(s, i, lit) ==
  /\ i >= 1
  /\ i + Len(lit) - 1 <= Len(s)
  /\ \A k \in 1..Len(lit) : s[i + k - 1] = lit[k]

\* lit in s
Contains(s, lit) == \E i \in 1..(Len(s) + 1) : HasAt(s, i, lit)

\* s[i:i+IdLen] consists of IdLen characters of the class [0-9A-Za-z_-]
IdAt(s, i) ==
  /\ i >= 1
  /\ i + IdLen - 1 <= Len(s)
  /\ \A k \in 0..(IdLen - 1) : s[i + k] \in IdChars

\* re.search(lit + '([0-9A-Za-z_-]{11})', s): group 1 of the leftmost match, or None
SearchIdAfter(s, lit) ==
  LET hits == {i \in 1..Len(s) : HasAt(s, i, lit) /\ IdAt(s, i + Len(lit))}
  IN  IF hits = {} THEN None
      ELSE SubSeq(s, Min(hits) + Len(lit), Min(hits) + Len(lit) + IdLen - 1)

\* re.match(r'^[0-9A-Za-z_-]{11}$', s): Python's $ also matches just before a
\* newline that ends the string
MatchBareId(s) ==
  /\ IdAt(s, 1)
  /\ \/ Len(s) = IdLen
     \/ Len(s) = IdLen + 1 /\ s[IdLen + 1] = "\n"

(***************************************************************************)
(* TranscriptService.extract_video_id                                      *)
(***************************************************************************)
extract_video_id(u) ==
  LET short == IF Contains(u, LitYoutuBe) THEN SearchIdAfter(u, LitYoutuBeSlash) ELSE None
      std   == IF Contains(u, LitYoutubeCom) /\ Contains(u, LitVEq)
               THEN SearchIdAfter(u, LitVEq) ELSE None
      embed == IF Contains(u, LitEmbed) THEN SearchIdAfter(u, LitEmbed) ELSE None
  IN  IF short # None THEN short
      ELSE IF std # None THEN std
      ELSE IF embed # None THEN embed
      ELSE IF MatchBareId(u) THEN u
      ELSE None

(***************************************************************************)
(* FlashcardRequest.validate_youtube_url: re.match of                      *)
(*   (https?://)?(www\.)?(youtube|youtu|youtube-nocookie)\.(com|be)/       *)
(*   (watch\?v=|embed/|v/|.+\?v=)?([^&=%\?]{11})                           *)
(* The sets are the positions the match can stand at after each group.     *)
(***************************************************************************)
\* the positions after one of the literals, matched at a position of `from`
Step(s, from, lits) ==
  UNION {{p + Len(l) : l \in {x \in lits : HasAt(s, p, x)}} : p \in from}

validate_youtube_url(v) ==
  LET p0 == {1} \cup Step(v, {1}, {LitHttp, LitHttps})
      p1 == p0 \cup Step(v, p0, {LitWww})
      p2 == Step(v, p1, {LitYoutube, LitYoutu, LitNocookie})
      p3 == Step(v, p2, {<<".">>})
      p4 == Step(v, p3, {LitCom, LitBe})
      p5 == Step(v, p4, {<<"/">>})
      \* .+\?v= : one or more characters other than a newline, then ?v=
      any == {q + Len(LitQV) : q \in {q \in 1..Len(v) :
                 /\ HasAt(v, q, LitQV)
                 /\ \E p \in p5 : p < q /\ \A k \in p..(q - 1) : v[k] # "\n"}}
      p6 == p5 \cup Step(v, p5, {LitWatchV, LitEmbed, LitVSlash}) \cup any
  IN  \E p \in p6 :
        /\ p + IdLen - 1 <= Len(v)
        /\ \A k \in 0..(IdLen - 1) : v[p + k] \notin {"&", "=", "%", "?"}

(***************************************************************************)
(* Inputs: URL prefixes, 11-character tokens and suffixes; a URL is a      *)
(* prefix, a token and a suffix put together.                              *)
(***************************************************************************)
PreBare == <<>>
PreShort == <<"h", "t", "t", "p", "s", ":", "/", "/", "y", "o", "u", "t", "u", ".", "b", "e", "/">>
PreShortBare == <<"y", "o", "u", "t", "u", ".", "b", "e", "/">>
PreWatch == <<"h", "t", "t", "p", "s", ":", "/", "/", "w", "w", "w", ".", "y", "o", "u", "t", "u", "b", "e", ".", "c", "o", "m", "/", "w", "a", "t", "c", "h", "?", "v", "=">>
PreWatchMobile == <<"h", "t", "t", "p", ":", "/", "/", "m", ".", "y", "o", "u", "t", "u", "b", "e", ".", "c", "o", "m", "/", "w", "a", "t", "c", "h", "?", "v", "=">>
PreEmbed == <<"h", "t", "t", "p", "s", ":", "/", "/", "w", "w", "w", ".", "y", "o", "u", "t", "u", "b", "e", ".", "c", "o", "m", "/", "e", "m", "b", "e", "d", "/">>
PreEmbedNocookie == <<"h", "t", "t", "p", "s", ":", "/", "/", "w", "w", "w", ".", "y", "o", "u", "t", "u", "b", "e", "-", "n", "o", "c", "o", "o", "k", "i", "e", ".", "c", "o", "m", "/", "e", "m", "b", "e", "d", "/">>
PreVPath == <<"y", "o", "u", "t", "u", "b", "e", ".", "c", "o", "m", "/", "v", "/">>
PreOther == <<"h", "t", "t", "p", "s", ":", "/", "/", "e", "x", "a", "m", "p", "l", "e", ".", "c", "o", "m", "/", "c", "l", "i", "p", "/">>
PreWatchList == <<"h", "t", "t", "p", "s", ":", "/", "/", "w", "w", "w", ".", "y", "o", "u", "t", "u", "b", "e", ".", "c", "o", "m", "/", "w", "a", "t", "c", "h", "?", "l", "i", "s", "t", "=", "P", "L", "1", "&", "v", "=">>

IdRick == <<"d", "Q", "w", "4", "w", "9", "W", "g", "X", "c", "Q">>
IdShortUrl == <<"8", "j", "L", "O", "x", "1", "h", "D", "3", "_", "o">>
IdDash == <<"-", "_", "0", "f", "O", "N", "e", "n", "e", "3", "O">>
TokTen == <<"d", "Q", "w", "4", "w", "9", "W", "g", "X", "c">>
TokBang == <<"d", "Q", "w", "4", "w", "!", "W", "g", "X", "c", "Q">>

SufNone == <<>>
SufTime == <<"&", "t", "=", "4", "2", "s">>
SufShare == <<"?", "s", "i", "=", "y", "o", "u", "t", "u", ".", "b", "e">>
SufNewline == <<"\n">>

UrlPrefixes ==
  {PreBare, PreShort, PreShortBare, PreWatch, PreWatchMobile, PreEmbed,
   PreEmbedNocookie, PreVPath, PreOther, PreWatchList}
UrlTokens == {IdRick, IdShortUrl, IdDash, TokTen, TokBang}
UrlSuffixes == {SufNone, SufTime, SufShare, SufNewline}
ExtractInputs == {p \o t \o s : p \in UrlPrefixes, t \in UrlTokens, s \in UrlSuffixes}

(***************************************************************************)
(* Results of calls that may raise.                                        *)
(***************************************************************************)
Return(v) == [raised |-> "none", value |-> v]
Raise(kind) == [raised |-> kind, value |-> None]

\* a dict key that is not in the dict, and JSON null / Python None as a value
Absent == "(absent)"
PyNone == "(None)"

\* d.get(key, default) of a field held as Absent when the key is missing
Get(v, default) == IF v = Absent THEN default ELSE v

(***************************************************************************)
(* The watch page as get_video_metadata reads it: the <title> element, the *)
(* author, description and duration meta tags.  A title is held as its     *)
(* text before the " - YouTube" suffix and whether the suffix is there; a  *)
(* description as its text and its length.                                 *)
(***************************************************************************)
NoTitle == [present |-> FALSE, stem |-> "", suffix |-> FALSE]
NoDescription == [present |-> FALSE, text |-> "", len |-> 0]
PageFull ==
  [title |-> [present |-> TRUE, stem |-> "Intro to Python", suffix |-> TRUE],
   author |-> "Some Channel",
   description |-> [present |-> TRUE, text |-> "A long description", len |-> 600],
   duration_iso |-> "PT4S"]
\* a page in which html.parser finds none of the tags (it raises on no input)
PageBare ==
  [title |-> NoTitle, author |-> Absent, description |-> NoDescription,
   duration_iso |-> Absent]
Pages == {PageFull, PageBare}

\* what session.get(...) followed by raise_for_status() can do
RequestErrors == {"ConnectionError", "Timeout", "HTTPError"}
PageOutcomes ==
  {[error |-> e, page |-> PageBare] : e \in RequestErrors}
    \cup {[error |-> "none", page |-> p] : p \in Pages}

\* the first 500 characters of the description are kept
DescriptionLimit == 500

\* the watch URL built from the id
full_url(video_id) == LitWatchUrl \o video_id

(***************************************************************************)
(* TranscriptService.get_video_metadata                                    *)
(***************************************************************************)
MinimalMetadata(vid) ==
  [video_id |-> vid, video_title |-> "Unknown Title", video_url |-> full_url(vid),
   channel_name |-> Absent, description |-> NoDescription, duration_iso |-> Absent]

\* get_video_metadata with an except clause that misses the HTTPError of
\* raise_for_status()
get_video_metadata_uncaught(video_url, o) ==
  LET vid == extract_video_id(video_url)
  IN  IF vid = None THEN Raise("ValueError")
      ELSE IF o.error = "HTTPError" THEN Raise("HTTPError")
      ELSE IF o.error \in RequestErrors THEN Return(MinimalMetadata(vid))
      ELSE Return(
        [video_id |-> vid,
         video_title |-> IF o.page.title.present THEN o.page.title.stem
                         ELSE "Unknown Title",
         video_url |-> full_url(vid),
         channel_name |-> o.page.author,
         description |-> o.page.description,
         duration_iso |-> o.page.duration_iso])

get_video_metadata(video_url, o) ==
  LET vid == extract_video_id(video_url)
      p   == o.page
  IN  IF vid = None THEN Raise("ValueError")
      ELSE IF o.error \in RequestErrors THEN Return(MinimalMetadata(vid))
      ELSE Return(
        [video_id |-> vid,
         \* title.text.replace(' - YouTube', '') if title else 'Unknown Title'
         video_title |-> IF p.title.present THEN p.title.stem ELSE "Unknown Title",
         video_url |-> full_url(vid),
         channel_name |-> p.author,
         description |->
           IF ~p.description.present THEN NoDescription
           ELSE [present |-> TRUE, text |-> p.description.text,
                 len |-> IF p.description.len > DescriptionLimit
                         THEN DescriptionLimit ELSE p.description.len],
         duration_iso |-> p.duration_iso])

(***************************************************************************)
(* The caption source.  A track carries a language code, a language name,  *)
(* whether it is auto-generated, and its segments; times are held in       *)
(* milliseconds (1500 stands for 1.5 seconds).                             *)
(***************************************************************************)
Seg(t, s, d) == [text |-> t, start |-> s, duration |-> d]

TrackA ==
  [language_code |-> "en", language |-> "English", is_generated |-> FALSE,
   segments |-> <<Seg("hello", 0, 1500), Seg("world", 1500, 2500)>>]
TrackB ==
  [language_code |-> "fr", language |-> "French (auto-generated)", is_generated |-> TRUE,
   segments |-> <<Seg("bonjour", 0, 2340)>>]
\* a track the service delivers without a single segment
TrackC ==
  [language_code |-> "es", language |-> "Spanish", is_generated |-> FALSE,
   segments |-> <<>>]
Tracks == {TrackA, TrackB, TrackC}

TrackLists == UNION {[1..n -> Tracks] : n \in 0..MaxTracks}
Languages == {"en", "es"}

\* what a call to the captions service can raise by itself
ApiErrors == {"TranscriptsDisabled", "VideoUnavailable", "RequestBlocked"}
ApiOutcomes == {"ok"} \cup ApiErrors

\* TranscriptList.find_transcript(language_codes): the first code, in the
\* order given, that a track has; the first such track; 0 when there is none
find_transcript(tracks, codes) ==
  LET has(c) == \E i \in 1..Len(tracks) : tracks[i].language_code = c
      hits   == {k \in 1..Len(codes) : has(codes[k])}
  IN  IF hits = {} THEN 0
      ELSE Min({i \in 1..Len(tracks) : tracks[i].language_code = codes[Min(hits)]})

\* the dict with is_generated set to False whatever the track says
FetchedDictNotGenerated(track) ==
  [segments |-> track.segments,
   language |-> track.language,
   is_generated |-> FALSE]

\* the dict built from a FetchedTranscript (lines 139-143, 149-153, 166-170, 177-181)
FetchedDict(track) ==
  [segments |-> track.segments,
   language |-> track.language,
   is_generated |-> track.is_generated]

\* ytt_api.fetch(video_id, languages=codes): list, find, fetch
api_fetch(tracks, codes, o) ==
  IF o # "ok" THEN Raise(o)
  ELSE IF find_transcript(tracks, codes) = 0 THEN Raise("NoTranscriptFound")
  ELSE Return(FetchedDict(tracks[find_transcript(tracks, codes)]))

\* transcript.fetch() of one listed track
track_fetch(track, o) ==
  IF o # "ok" THEN Raise(o) ELSE Return(FetchedDict(track))

(***************************************************************************)
(* The page scrape: the caption tracks of ytInitialPlayerResponse and the  *)
(* json3 events behind each track's baseUrl.                               *)
(***************************************************************************)
\* an event: the keys it has, the utf8 of its segs (Absent for a seg without
\* the key), tStartMs and dDurationMs
Event(keys, pieces, s, d) == [keys |-> keys, utf8 |-> pieces, tStartMs |-> s, dDurationMs |-> d]
TimedKeys == {"segs", "tStartMs", "dDurationMs"}
EventLists ==
  {<<Event({"tStartMs"}, <<>>, 0, 0)>>,
   <<Event(TimedKeys, <<"late", Absent, " words">>, 3000, 1200),
     Event({"tStartMs"}, <<>>, 100, 0),
     Event({"segs"}, <<"early">>, 0, 0)>>}

PageTrack(url, code, kind) == [baseUrl |-> url, languageCode |-> code, kind |-> kind]
PageTracks ==
  {PageTrack(Absent, "en", Absent),
   PageTrack("https://www.youtube.com/api/timedtext?lang=fr", "fr", "asr"),
   PageTrack("https://www.youtube.com/api/timedtext", Absent, Absent)}

\* what the GET of a track's baseUrl can do
TrackGetOutcomes ==
  {[kind |-> k, events |-> <<>>] : k \in {"raises", "not_200", "not_json"}}
    \cup {[kind |-> "json", events |-> e] : e \in EventLists}

RECURSIVE JoinPieces(_)
\* ''.join(pieces)
JoinPieces(pieces) ==
  IF pieces = <<>> THEN "" ELSE Get(Head(pieces), "") \o JoinPieces(Tail(pieces))

RECURSIVE EventsToSegments(_)
\* lines 250-258: one segment per event that has 'segs'
EventsToSegments(events) ==
  IF events = <<>> THEN <<>>
  ELSE LET e == Head(events)
       IN  IF "segs" \in e.keys
           THEN <<Seg(JoinPieces(e.utf8),
                      IF "tStartMs" \in e.keys THEN e.tStartMs ELSE 0,
                      IF "dDurationMs" \in e.keys THEN e.dDurationMs ELSE 0)>>
                  \o EventsToSegments(Tail(events))
           ELSE EventsToSegments(Tail(events))

\* lines 262-266
ScrapedDict(track, segments) ==
  [segments |-> segments,
   language |-> Get(track.languageCode, "en"),
   is_generated |-> track.kind = "asr"]

\* what session.get(full_url) of the scrape yields: the request raises, the
\* pattern is not found, the blob is not JSON, or n caption tracks are listed
ScrapePages ==
  {[kind |-> k, n |-> 0] : k \in {"raises", "no_match", "bad_json"}}
    \cup {[kind |-> "tracks", n |-> n] : n \in 0..MaxTracks}

(***************************************************************************)
(* TranscriptService.get_transcript, lines 311-344: assembly.              *)
(***************************************************************************)
RECURSIVE Join(_, _)
\* sep.join(texts)
Join(texts, sep) ==
  IF texts = <<>> THEN ""
  ELSE IF Len(texts) = 1 THEN texts[1]
  ELSE texts[1] \o sep \o Join(Tail(texts), sep)

\* the texts of the segments that have one: a join that skips empty texts
TextsNonEmpty(segments) ==
  LET kept == SelectSeq(segments, LAMBDA seg : seg.text # "")
  IN  [i \in 1..Len(kept) |-> kept[i].text]

Texts(segments) == [i \in 1..Len(segments) |-> segments[i].text]

\* the end of the last segment, which is the total only when the segments
\* end in ascending order
TotalDurationOfLast(segments, total) ==
  IF segments = <<>> THEN total
  ELSE segments[Len(segments)].start + segments[Len(segments)].duration

RECURSIVE TotalDuration(_, _)
\* lines 322-329: the running maximum of start + duration, from 0
TotalDuration(segments, total) ==
  IF segments = <<>> THEN total
  ELSE LET end_time == Head(segments).start + Head(segments).duration
       IN  TotalDuration(Tail(segments), IF end_time > total THEN end_time ELSE total)

Assemble(vid, video_url, lang, preserve_formatting, md, td) ==
  [video_id |-> vid,
   video_title |-> md.video_title,
   video_url |-> md.video_url,
   channel_name |-> Get(md.channel_name, PyNone),
   description |-> md.description,
   language |-> td.language,
   is_generated |-> td.is_generated,
   segments |-> td.segments,
   full_text |-> Join(Texts(td.segments), IF preserve_formatting THEN "\n" ELSE " "),
   duration |-> TotalDuration(td.segments, 0)]

(***************************************************************************)
(* The completion service's reply and the raw flashcards in it.  A JSON    *)
(* value is held with its kind: a missing key, null, a string (its         *)
(* characters) or a number (its decimal digits).                           *)
(***************************************************************************)
Str(chars) == [kind |-> "str", chars |-> chars]
Missing == [kind |-> "missing", chars |-> <<>>]
Null == [kind |-> "null", chars |-> <<>>]
Number(digits) == [kind |-> "number", chars |-> digits]

QWhatIs == <<"W", "h", "a", "t", " ", "i", "s", " ", "T", "L", "A", "+", "?">>
QPadded == <<" ", " ", "W", "h", "y", " ", "m", "o", "d", "e", "l", "?", " ", " ", "\n">>
QNine == <<" ", "N", "i", "n", "e", " ", "c", "h", "r", " ", "\n">>
AWords == <<"A", " ", "l", "a", "n", "g", "u", "a", "g", "e">>
AYes == <<" ", "y", "e", "s", " ">>
ANo == <<"n", "o">>
DEasy == <<"E", "a", "s", "y">>
DHard == <<"H", "A", "R", "D", " ">>
DSuper == <<"S", "U", "P", "E", "R">>
DMedium == <<"m", "e", "d", "i", "u", "m">>

RawCard(q, a, d, t) ==
  [question |-> q, answer |-> a, difficulty |-> d, topic |-> t, explanation |-> Absent]
CardGood == RawCard(Str(QWhatIs), Str(AWords), Str(DEasy), "Basics")
CardPadded == RawCard(Str(QPadded), Str(AWords), Str(DHard), Absent)
CardSuper == RawCard(Str(QWhatIs), Str(AWords), Str(DSuper), Absent)
CardNoDifficulty == RawCard(Str(QWhatIs), Str(AWords), Missing, "Basics")
CardShortAnswer == RawCard(Str(QWhatIs), Str(AYes), Str(DMedium), Absent)
CardTinyAnswer == RawCard(Str(QWhatIs), Str(ANo), Str(DMedium), Absent)
CardNineQ == RawCard(Str(QNine), Str(AWords), Str(DEasy), Absent)
CardNoAnswer == RawCard(Str(QWhatIs), Missing, Str(DEasy), Absent)
CardEmptyQuestion == RawCard(Str(<<>>), Str(AWords), Str(DEasy), Absent)
CardNullDifficulty == RawCard(Str(QWhatIs), Str(AWords), Null, Absent)

\* a question of 10 characters once trimmed, a number for an answer
QTen == <<" ", "T", "e", "n", " ", "c", "h", "a", "r", "s", "?", " ">>
CardTenThree == RawCard(Str(QTen), Str(AYes), Str(DMedium), Absent)
CardNumberAnswer == RawCard(Str(QWhatIs), Number(<<"1", "0", "0">>), Str(DEasy), Absent)

(***************************************************************************)
(* Python string and truth primitives used by the validation pass.         *)
(***************************************************************************)
UpperCase == <<"A", "B", "C", "D", "E", "F", "G", "H", "I", "J", "K", "L", "M", "N", "O", "P", "Q", "R", "S", "T", "U", "V", "W", "X", "Y", "Z">>
LowerCase == <<"a", "b", "c", "d", "e", "f", "g", "h", "i", "j", "k", "l", "m", "n", "o", "p", "q", "r", "s", "t", "u", "v", "w", "x", "y", "z">>

\* c.lower()
LowerChar(c) ==
  IF \E i \in 1..Len(UpperCase) : UpperCase[i] = c
  THEN LowerCase[CHOOSE i \in 1..Len(UpperCase) : UpperCase[i] = c]
  ELSE c

\* s.lower()
Lower(s) == [i \in 1..Len(s) |-> LowerChar(s[i])]

Whitespace == {" ", "\n", "\t", "\r"}

\* s.strip()
Strip(s) ==
  LET keep == {i \in 1..Len(s) : s[i] \notin Whitespace}
  IN  IF keep = {} THEN <<>>
      ELSE SubSeq(s, Min(keep), CHOOSE hi \in keep : \A i \in keep : i <= hi)

\* not v, for a JSON value
Falsy(v) ==
  \/ v.kind \in {"missing", "null"}
  \/ v.kind = "str" /\ v.chars = <<>>
  \/ v.kind = "number" /\ v.chars = <<"0">>

\* the difficulty levels: the three a card can have, and the request's fourth
DiffEasy == <<"e", "a", "s", "y">>
DiffMedium == <<"m", "e", "d", "i", "u", "m">>
DiffHard == <<"h", "a", "r", "d">>
DiffMixed == <<"m", "i", "x", "e", "d">>
CardDifficulties == {DiffEasy, DiffMedium, DiffHard}

(***************************************************************************)
(* AIProcessor._validate_flashcards                                        *)
(***************************************************************************)
\* str(v) of a JSON string or number
PyStr(v) == v.chars

\* lines 193-198: card.get('difficulty', 'medium').lower(), replaced when it
\* is none of easy, medium, hard
NormalizedDifficulty(card, requested_difficulty) ==
  LET difficulty == IF card.difficulty.kind = "missing" THEN DiffMedium
                    ELSE Lower(card.difficulty.chars)
  IN  IF difficulty \in CardDifficulties THEN difficulty
      ELSE IF requested_difficulty = DiffMixed THEN DiffMedium
      ELSE requested_difficulty

\* lines 200-206
ValidatedCard(card, requested_difficulty) ==
  [question |-> Strip(PyStr(card.question)),
   answer |-> Strip(PyStr(card.answer)),
   difficulty |-> NormalizedDifficulty(card, requested_difficulty),
   topic |-> Get(card.topic, "General"),
   explanation |-> Get(card.explanation, PyNone)]

\* the least length of a kept question and of a kept answer (line 209)
MinQuestionLen == 10
MinAnswerLen == 3

\* a length check made on the raw strings, before they are trimmed
CardVerdictUntrimmed(card, requested_difficulty) ==
  IF Falsy(card.question) \/ Falsy(card.answer) THEN "skip"
  ELSE IF card.difficulty.kind \in {"null", "number"} THEN "raise"
  ELSE IF \/ Len(PyStr(card.question)) < MinQuestionLen
          \/ Len(PyStr(card.answer)) < MinAnswerLen
       THEN "skip"
  ELSE "keep"

\* what one pass of the loop body does with a card: "skip" (continue),
\* "keep" (append) or "raise" (.lower() of a value that is no string)
CardVerdict(card, requested_difficulty) ==
  IF Falsy(card.question) \/ Falsy(card.answer) THEN "skip"
  ELSE IF card.difficulty.kind \in {"null", "number"} THEN "raise"
  ELSE IF \/ Len(ValidatedCard(card, requested_difficulty).question) < MinQuestionLen
          \/ Len(ValidatedCard(card, requested_difficulty).answer) < MinAnswerLen
       THEN "skip"
  ELSE "keep"

RECURSIVE ValidateFromNewestFirst(_, _, _)
\* a pass that puts each kept card in front of those kept before it
ValidateFromNewestFirst(flashcards, requested_difficulty, validated) ==
  IF flashcards = <<>> THEN Return(validated)
  ELSE LET card == Head(flashcards)
           verdict == CardVerdict(card, requested_difficulty)
       IN  IF verdict = "raise" THEN Raise("AttributeError")
           ELSE ValidateFromNewestFirst(Tail(flashcards), requested_difficulty,
                  IF verdict = "keep"
                  THEN <<ValidatedCard(card, requested_difficulty)>> \o validated
                  ELSE validated)

RECURSIVE ValidateFrom(_, _, _)
ValidateFrom(flashcards, requested_difficulty, validated) ==
  IF flashcards = <<>> THEN Return(validated)
  ELSE LET card == Head(flashcards)
           verdict == CardVerdict(card, requested_difficulty)
       IN  IF verdict = "raise" THEN Raise("AttributeError")
           ELSE ValidateFrom(Tail(flashcards), requested_difficulty,
                  IF verdict = "keep"
                  THEN Append(validated, ValidatedCard(card, requested_difficulty))
                  ELSE validated)

validate_flashcards(flashcards, requested_difficulty) ==
  ValidateFrom(flashcards, requested_difficulty, <<>>)

(***************************************************************************)
(* AIProcessor._create_user_prompt, lines 125-168.  A transcript text is   *)
(* held by its length; the text embedded in the prompt by the length of    *)
(* the prefix kept and the marker appended to it.                          *)
(***************************************************************************)
MaxTranscriptLength == 8000
Ellipsis == "..."
Text(n) == [len |-> n]

\* a truncation that also marks a transcript of exactly the maximum length
EmbeddedTranscriptFromMax(transcript) ==
  IF transcript.len >= MaxTranscriptLength
  THEN [kept |-> MaxTranscriptLength, marker |-> Ellipsis]
  ELSE [kept |-> transcript.len, marker |-> ""]

\* lines 135-137: transcript[:max_transcript_length] + "..." when longer
EmbeddedTranscript(transcript) ==
  IF transcript.len > MaxTranscriptLength
  THEN [kept |-> MaxTranscriptLength, marker |-> Ellipsis]
  ELSE [kept |-> transcript.len, marker |-> ""]

\* the parts of the prompt that depend on the arguments
create_user_prompt(transcript, num_cards, difficulty_level) ==
  [num_cards |-> num_cards,
   difficulty_level |-> difficulty_level,
   transcript |-> EmbeddedTranscript(transcript),
   requirement |-> IF difficulty_level = DiffMixed THEN "mix" ELSE "all"]

(***************************************************************************)
(* AIProcessor.generate_flashcards, lines 62-91, given what the completion *)
(* service does: the call raises, the content is not JSON, or it is a JSON *)
(* object with or without the flashcards key.                              *)
(***************************************************************************)
Reply(kind, has_key, cards) == [kind |-> kind, has_key |-> has_key, flashcards |-> cards]

\* one handler for every exception: a reply that is not JSON fails like a
\* failed call
generate_flashcards_one_handler(difficulty_level, reply) ==
  IF reply.kind \in {"raises", "not_json"} THEN Raise("Exception")
  ELSE LET flashcards == IF reply.has_key THEN reply.flashcards ELSE <<>>
           validated  == validate_flashcards(flashcards, difficulty_level)
       IN  IF validated.raised # "none" THEN Raise("Exception") ELSE validated

generate_flashcards(difficulty_level, reply) ==
  IF reply.kind = "raises" THEN Raise("Exception")
  ELSE IF reply.kind = "not_json" THEN Raise("ValueError")
  ELSE LET flashcards == IF reply.has_key THEN reply.flashcards ELSE <<>>
           validated  == validate_flashcards(flashcards, difficulty_level)
       IN  IF validated.raised # "none" THEN Raise("Exception") ELSE validated

\* the replies a request of the pipeline can meet
PipelineReplies ==
  {Reply("raises", FALSE, <<>>), Reply("not_json", FALSE, <<>>), Reply("json", FALSE, <<>>)}
    \cup {Reply("json", TRUE, cards) : cards \in
           {<<>>, <<CardNineQ, CardNoAnswer>>, <<CardSuper, CardGood>>,
            <<CardShortAnswer>>, <<CardGood, CardNullDifficulty>>}}

(***************************************************************************)
(* models.Flashcard and models.FlashcardSet as the handler builds them.    *)
(***************************************************************************)
\* Field(..., min_length=10) and Field(..., min_length=5)
FlashcardMinQuestion == 10
FlashcardMinAnswer == 5

\* Flashcard(**card_data) passes pydantic's validation
FlashcardAccepts(card_data) ==
  /\ Len(card_data.question) >= FlashcardMinQuestion
  /\ Len(card_data.answer) >= FlashcardMinAnswer
  /\ card_data.difficulty \in CardDifficulties

\* the pydantic major versions the imports and Config of models.py run under
PydanticMajors == {1, 2}
MsPerSecond == 1000

\* duration: Optional[int] given a float: version 1 truncates it, version 2
\* rejects a float with a fractional part
DurationAccepted(major, duration) == major = 1 \/ duration % MsPerSecond = 0

(***************************************************************************)
(* The state of one request to POST /api/v1/flashcards/generate.           *)
(***************************************************************************)
VARIABLES
  pc,              \* where the request stands
  request,         \* the FlashcardRequest: youtube_url, language, difficulty_level
  src_tracks,      \* the tracks the caption source has for the video, in its order
  transcript_list, \* transcript_list of get_transcript_from_api, once list() returned
  video_id,        \* video_id of the handler and of get_transcript
  metadata,        \* metadata of the handler (main.py line 153)
  gt_metadata,     \* metadata of get_transcript (transcript.py line 295)
  in_progress,     \* the strategies of the fallback chain that are running
  attempts,        \* the strategies that have ended, in order, each with its outcome
  track_log,       \* the per-track fetches made by strategies 3, 4 and 5, in order
  idx,             \* the position of the running loop over tracks
  n_page_tracks,   \* how many caption tracks the scraped page lists
  transcript_data, \* what the fallback chain returned
  transcript,      \* what get_transcript returned
  flashcards_data, \* what generate_flashcards returned
  completion,      \* what the completion service did when it was called
  response,        \* the response sent
  calls,           \* the external calls made, in order
  call_args,       \* a function called on its own: its arguments
  call_result,     \* a function called on its own: what it returned or raised
  api_key,         \* OPENAI_API_KEY in the environment of the process
  session,         \* the cookie jar of transcript_service.session, shared by all
                   \* requests; followed where several requests are served
  handlers         \* the requests served one after another by the one process

vars ==
  <<pc, request, src_tracks, transcript_list, video_id, metadata, gt_metadata,
    in_progress, attempts, track_log, idx, n_page_tracks, transcript_data, transcript,
    flashcards_data, completion, response, calls, call_args, call_result, api_key,
    session, handlers>>

\* the variables of a function called on its own, and those of the environment
callVars == <<call_args, call_result>>
envVars == <<request, src_tracks, api_key, session, handlers>>

\* a variable that holds None
PyNoneRec == [none |-> TRUE]
NoResponse == [status |-> 0, kind |-> "none"]
NoReply == [kind |-> "none", has_key |-> FALSE, flashcards |-> <<>>]
NoCall == [none |-> TRUE]
\* transcript_list before list() has returned, and after
NotListed == [listed |-> FALSE, tracks |-> <<>>]
Listed(tracks) == [listed |-> TRUE, tracks |-> tracks]
Error(status, kind) == [status |-> status, kind |-> kind]

\* the URLs requests of the pipeline carry
RequestUrls ==
  {PreShort \o IdShortUrl \o SufShare, PreVPath \o IdRick, PreOther \o IdRick, IdRick}
RequestDifficulties == {DiffMixed, DiffHard}
Requests ==
  [youtube_url : RequestUrls, language : Languages, difficulty_level : RequestDifficulties]

\* the cookies a watch page sets, and the jar of a new Session: for each
\* name the request whose response set the cookie, 0 when it is not set
CookieNames == {"YSC", "VISITOR_INFO1_LIVE"}
EmptyJar == [n \in CookieNames |-> 0]

Idle ==
  /\ session = EmptyJar
  /\ handlers = <<>>
  /\ transcript_list = NotListed
  /\ video_id = None
  /\ metadata = PyNoneRec
  /\ gt_metadata = PyNoneRec
  /\ in_progress = {}
  /\ attempts = <<>>
  /\ track_log = <<>>
  /\ idx = 0
  /\ n_page_tracks = 0
  /\ transcript_data = PyNoneRec
  /\ transcript = PyNoneRec
  /\ flashcards_data = <<>>
  /\ completion = NoReply
  /\ response = NoResponse
  /\ calls = <<>>

\* what os.getenv("OPENAI_API_KEY") can give: a key, the empty string, None
ApiKeys == {"sk-key", "", Absent}

Init ==
  /\ pc = "startup"
  /\ api_key \in ApiKeys
  /\ request \in Requests
  /\ src_tracks \in TrackLists
  /\ call_args = NoCall
  /\ call_result = NoCall
  /\ Idle

\* the request ends with a response
Respond(r) ==
  /\ response' = r
  /\ pc' = "done"

\* a start that leaves the check of the key to the first completion call
StartupUnchecked ==
  /\ pc = "startup"
  /\ pc' = "validate"
  /\ UNCHANGED <<callVars, envVars, transcript_list, completion, video_id, metadata,
                 gt_metadata, in_progress, attempts, track_log, idx, n_page_tracks,
                 transcript_data, transcript, flashcards_data, response, calls>>

(***************************************************************************)
(* main.py lines 86-88 and ai_processor.py lines 19-26: the services are   *)
(* built when the module is loaded; AIProcessor() raises ValueError when   *)
(* the key is missing or empty, the module does not load and the process   *)
(* serves no request.                                                      *)
(***************************************************************************)
Startup ==
  /\ pc = "startup"
  /\ pc' = IF api_key \in {Absent, ""} THEN "crashed" ELSE "validate"
  /\ UNCHANGED <<callVars, envVars, transcript_list, completion, video_id, metadata,
                 gt_metadata, in_progress, attempts, track_log, idx, n_page_tracks,
                 transcript_data, transcript, flashcards_data, response, calls>>

(***************************************************************************)
(* models.py lines 26-35: pydantic runs the validator before the handler;  *)
(* FastAPI answers a request that fails it with 422.                       *)
(***************************************************************************)
Validate ==
  /\ pc = "validate"
  /\ IF validate_youtube_url(request.youtube_url)
     THEN pc' = "handler" /\ UNCHANGED response
     ELSE Respond(Error(422, "RequestValidationError"))
  /\ UNCHANGED <<callVars, envVars, transcript_list, completion, video_id, metadata,
                 gt_metadata, in_progress, attempts, track_log, idx, n_page_tracks,
                 transcript_data, transcript, flashcards_data, calls>>

\* step 1 of the handler without the check of the id
HandlerExtractUnchecked ==
  /\ pc = "handler"
  /\ video_id' = extract_video_id(request.youtube_url)
  /\ pc' = "metadata"
  /\ UNCHANGED response
  /\ UNCHANGED <<callVars, envVars, transcript_list, completion, metadata, gt_metadata,
                 in_progress, attempts, track_log, idx, n_page_tracks, transcript_data,
                 transcript, flashcards_data, calls>>

(***************************************************************************)
(* main.py lines 142-149: step 1 of the handler.                           *)
(***************************************************************************)
HandlerExtract ==
  /\ pc = "handler"
  /\ video_id' = extract_video_id(request.youtube_url)
  /\ IF video_id' = None
     THEN Respond(Error(400, "InvalidUrl"))
     ELSE pc' = "metadata" /\ UNCHANGED response
  /\ UNCHANGED <<callVars, envVars, transcript_list, completion, metadata, gt_metadata,
                 in_progress, attempts, track_log, idx, n_page_tracks, transcript_data,
                 transcript, flashcards_data, calls>>

\* the calls get_video_metadata makes: none when it raises for want of an id
MetadataCalls(video_url) ==
  IF extract_video_id(video_url) = None THEN <<>> ELSE <<"watch_page">>

(***************************************************************************)
(* main.py lines 151-153: step 2 of the handler.                           *)
(***************************************************************************)
HandlerMetadata ==
  /\ pc = "metadata"
  /\ \E o \in PageOutcomes :
       LET r == get_video_metadata(request.youtube_url, o)
       IN  IF r.raised # "none"
           THEN Respond(Error(500, r.raised)) /\ UNCHANGED metadata
           ELSE metadata' = r.value /\ pc' = "get_transcript" /\ UNCHANGED response
  /\ calls' = calls \o MetadataCalls(request.youtube_url)
  /\ UNCHANGED <<callVars, envVars, transcript_list, completion, video_id, gt_metadata,
                 in_progress, attempts, track_log, idx, n_page_tracks, transcript_data,
                 transcript, flashcards_data>>

(***************************************************************************)
(* transcript.py lines 289-298: get_transcript extracts the id again,      *)
(* fetches the metadata again and enters the fallback chain.               *)
(***************************************************************************)
GetTranscriptMetadata ==
  /\ pc = "get_transcript"
  /\ \E o \in PageOutcomes :
       LET r == get_video_metadata(request.youtube_url, o)
       IN  IF r.raised # "none"
           THEN Respond(Error(500, r.raised)) /\ UNCHANGED <<gt_metadata, in_progress>>
           ELSE /\ gt_metadata' = r.value
                /\ pc' = "s1"
                /\ in_progress' = {1}
                /\ UNCHANGED response
  /\ calls' = calls \o MetadataCalls(request.youtube_url)
  /\ UNCHANGED <<callVars, envVars, transcript_list, completion, video_id, metadata,
                 attempts, track_log, idx, n_page_tracks, transcript_data, transcript,
                 flashcards_data>>

(***************************************************************************)
(* The fallback chain: how a strategy ends.                                *)
(***************************************************************************)
\* an ended strategy: its number, whether it returned a dict, and the dict
Ended(k, dict) == [strategy |-> k, ok |-> dict # PyNoneRec, result |-> dict]

\* a strategy that builds its dict without returning it: the chain goes on
StrategyReturnsFallsThrough(k, dict) ==
  /\ transcript_data' = dict
  /\ attempts' = Append(attempts, Ended(k, dict))
  /\ in_progress' = IF k < 5 THEN {k + 1} ELSE {}
  /\ pc' = CASE k = 1 -> "s2"
             [] k = 2 -> "s3_list"
             [] k = 3 -> "s4"
             [] k = 4 -> "s5_page"
             [] OTHER -> "assemble"

\* strategy k returns a dict: get_transcript_from_api (or the scrape) returns it
StrategyReturns(k, dict) ==
  /\ transcript_data' = dict
  /\ attempts' = Append(attempts, Ended(k, dict))
  /\ in_progress' = {}
  /\ pc' = "assemble"

\* a chain without fallback: the first failure is the failure of the fetch
StrategyFailsGivesUp(k, next_pc) ==
  /\ attempts' = Append(attempts, Ended(k, PyNoneRec))
  /\ in_progress' = {}
  /\ pc' = "no_captions"
  /\ UNCHANGED transcript_data

\* strategy k fails and the chain goes on with strategy k + 1 at next_pc
StrategyFails(k, next_pc) ==
  /\ attempts' = Append(attempts, Ended(k, PyNoneRec))
  /\ in_progress' = {k + 1}
  /\ pc' = next_pc
  /\ UNCHANGED transcript_data

\* the last strategy fails: get_transcript raises (lines 305-309)
ChainExhausted ==
  /\ attempts' = Append(attempts, Ended(5, PyNoneRec))
  /\ in_progress' = {}
  /\ pc' = "no_captions"
  /\ UNCHANGED transcript_data

\* a strategy's call succeeded: it returned instead of raising
Succeeded(r) == r.raised = "none"

(***************************************************************************)
(* transcript.py lines 133-144: strategy 1, fetch with [language, 'en'].   *)
(***************************************************************************)
Strategy1 ==
  /\ pc = "s1"
  /\ \E o \in ApiOutcomes :
       LET r == api_fetch(src_tracks, <<request.language, "en">>, o)
       IN  IF Succeeded(r) THEN StrategyReturns(1, r.value) ELSE StrategyFails(1, "s2")
  /\ calls' = Append(calls, "captions_fetch")
  /\ UNCHANGED <<callVars, envVars, transcript_list, completion, video_id, metadata,
                 gt_metadata, track_log, idx, n_page_tracks, transcript,
                 flashcards_data, response>>

(***************************************************************************)
(* transcript.py lines 145-155: strategy 2, fetch without languages (the   *)
(* library's default is ('en',)).                                          *)
(***************************************************************************)
Strategy2 ==
  /\ pc = "s2"
  /\ \E o \in ApiOutcomes :
       LET r == api_fetch(src_tracks, <<"en">>, o)
       IN  IF Succeeded(r) THEN StrategyReturns(2, r.value) ELSE StrategyFails(2, "s3_list")
  /\ calls' = Append(calls, "captions_fetch")
  /\ UNCHANGED <<callVars, envVars, transcript_list, completion, video_id, metadata,
                 gt_metadata, track_log, idx, n_page_tracks, transcript,
                 flashcards_data, response>>

(***************************************************************************)
(* transcript.py lines 157-159, 184-185: list().  When it raises there is  *)
(* no enumeration: strategies 3 and 4 both end failed.                     *)
(***************************************************************************)
Strategy3List ==
  /\ pc = "s3_list"
  /\ \E o \in ApiOutcomes :
       IF o = "ok"
       THEN /\ transcript_list' = Listed(src_tracks)
            /\ pc' = "s3_fetch"
            /\ UNCHANGED <<attempts, in_progress>>
       ELSE /\ UNCHANGED transcript_list
            /\ attempts' = attempts \o <<Ended(3, PyNoneRec), Ended(4, PyNoneRec)>>
            /\ in_progress' = {5}
            /\ pc' = "s5_page"
  /\ calls' = Append(calls, "captions_list")
  /\ UNCHANGED <<callVars, envVars, completion, video_id, metadata, gt_metadata,
                 track_log, idx, n_page_tracks, transcript_data, transcript,
                 flashcards_data, response>>

Fetched(k, i, ok) == [strategy |-> k, index |-> i, ok |-> ok]

(***************************************************************************)
(* transcript.py lines 161-171: strategy 3, find the requested language    *)
(* and fetch that track.                                                   *)
(***************************************************************************)
Strategy3Fetch ==
  /\ pc = "s3_fetch"
  /\ LET t == find_transcript(transcript_list.tracks, <<request.language>>)
     IN  IF t = 0
         THEN /\ StrategyFails(3, "s4")
              /\ UNCHANGED <<track_log, calls>>
         ELSE \E o \in ApiOutcomes :
                LET r == track_fetch(transcript_list.tracks[t], o)
                IN  /\ IF Succeeded(r) THEN StrategyReturns(3, r.value)
                       ELSE StrategyFails(3, "s4")
                    /\ track_log' = Append(track_log, Fetched(3, t, Succeeded(r)))
                    /\ calls' = Append(calls, "track_fetch")
  /\ idx' = 1
  /\ UNCHANGED <<callVars, envVars, transcript_list, completion, video_id, metadata,
                 gt_metadata, n_page_tracks, transcript, flashcards_data, response>>

\* the loop of strategy 4 without the try around the fetch: the first track
\* whose fetch raises ends the loop
Strategy4TrackAborts ==
  /\ pc = "s4"
  /\ idx <= Len(transcript_list.tracks)
  /\ \E o \in ApiOutcomes :
       LET r == track_fetch(transcript_list.tracks[idx], o)
       IN  /\ IF Succeeded(r)
              THEN StrategyReturns(4, r.value) /\ UNCHANGED idx
              ELSE /\ idx' = Len(transcript_list.tracks) + 1
                   /\ UNCHANGED <<pc, attempts, in_progress, transcript_data>>
           /\ track_log' = Append(track_log, Fetched(4, idx, Succeeded(r)))
  /\ calls' = Append(calls, "track_fetch")
  /\ UNCHANGED <<callVars, envVars, transcript_list, completion, video_id, metadata,
                 gt_metadata, n_page_tracks, transcript, flashcards_data, response>>

(***************************************************************************)
(* transcript.py lines 172-183: strategy 4, one pass of the loop over the  *)
(* listed tracks.                                                          *)
(***************************************************************************)
Strategy4Track ==
  /\ pc = "s4"
  /\ idx <= Len(transcript_list.tracks)
  /\ \E o \in ApiOutcomes :
       LET r == track_fetch(transcript_list.tracks[idx], o)
       IN  /\ IF Succeeded(r)
              THEN StrategyReturns(4, r.value) /\ UNCHANGED idx
              ELSE /\ idx' = idx + 1
                   /\ UNCHANGED <<pc, attempts, in_progress, transcript_data>>
           /\ track_log' = Append(track_log, Fetched(4, idx, Succeeded(r)))
  /\ calls' = Append(calls, "track_fetch")
  /\ UNCHANGED <<callVars, envVars, transcript_list, completion, video_id, metadata,
                 gt_metadata, n_page_tracks, transcript, flashcards_data, response>>

(***************************************************************************)
(* transcript.py lines 173, 213 and 300-303: the loop is over, the API     *)
(* method returns None and get_transcript turns to the scrape.             *)
(***************************************************************************)
Strategy4Exhausted ==
  /\ pc = "s4"
  /\ idx > Len(transcript_list.tracks)
  /\ StrategyFails(4, "s5_page")
  /\ UNCHANGED <<callVars, envVars, transcript_list, completion, video_id, metadata,
                 gt_metadata, track_log, idx, n_page_tracks, transcript,
                 flashcards_data, response, calls>>

(***************************************************************************)
(* transcript.py lines 220-239, 267-275: strategy 5, the GET of the watch  *)
(* page and the search for caption tracks in it.                           *)
(***************************************************************************)
Strategy5Page ==
  /\ pc = "s5_page"
  /\ \E page \in ScrapePages :
       IF page.kind = "tracks" /\ page.n > 0
       THEN /\ pc' = "s5_track"
            /\ n_page_tracks' = page.n
            /\ idx' = 1
            /\ UNCHANGED <<attempts, in_progress, transcript_data>>
       ELSE /\ ChainExhausted
            /\ UNCHANGED <<n_page_tracks, idx>>
  /\ calls' = Append(calls, "watch_page")
  /\ UNCHANGED <<callVars, envVars, transcript_list, completion, video_id, metadata,
                 gt_metadata, track_log, transcript, flashcards_data, response>>

\* what one pass of the loop over the page's caption tracks does: "next"
\* (go on with the next track), "abort" (an exception leaves the loop and the
\* strategy returns None) or "return"
ScrapeVerdict(track, o) ==
  IF track.baseUrl = Absent THEN "next"
  ELSE IF o.kind \in {"raises", "not_json"} THEN "abort"
  ELSE IF o.kind = "not_200" THEN "next"
  ELSE IF EventsToSegments(o.events) # <<>> THEN "return"
  ELSE "next"

(***************************************************************************)
(* transcript.py lines 241-273: strategy 5, one pass of the loop over the  *)
(* caption tracks of the page.                                             *)
(***************************************************************************)
Strategy5Track ==
  /\ pc = "s5_track"
  /\ idx <= n_page_tracks
  /\ \E track \in PageTracks, o \in TrackGetOutcomes :
       LET verdict == ScrapeVerdict(track, o)
       IN  /\ IF verdict = "return"
              THEN StrategyReturns(5, ScrapedDict(track, EventsToSegments(o.events)))
                   /\ UNCHANGED idx
              ELSE IF verdict = "abort"
              THEN ChainExhausted /\ UNCHANGED idx
              ELSE /\ idx' = idx + 1
                   /\ UNCHANGED <<pc, attempts, in_progress, transcript_data>>
           /\ track_log' = Append(track_log, Fetched(5, idx, verdict = "return"))
           /\ calls' = IF track.baseUrl = Absent THEN calls ELSE Append(calls, "track_url")
  /\ UNCHANGED <<callVars, envVars, transcript_list, completion, video_id, metadata,
                 gt_metadata, n_page_tracks, transcript, flashcards_data, response>>

\* a scrape that starts the loop over the page's caption tracks again when
\* it is over without a return
Strategy5ExhaustedRetries ==
  /\ pc = "s5_track"
  /\ idx > n_page_tracks
  /\ idx' = 1
  /\ UNCHANGED <<callVars, envVars, transcript_list, completion, video_id, metadata,
                 gt_metadata, track_log, n_page_tracks, transcript, flashcards_data,
                 response, calls, pc, attempts, in_progress, transcript_data>>

(***************************************************************************)
(* transcript.py lines 241, 275: the loop is over without a return.        *)
(***************************************************************************)
Strategy5Exhausted ==
  /\ pc = "s5_track"
  /\ idx > n_page_tracks
  /\ ChainExhausted
  /\ UNCHANGED <<callVars, envVars, transcript_list, completion, video_id, metadata,
                 gt_metadata, track_log, idx, n_page_tracks, transcript,
                 flashcards_data, response, calls>>

\* the status the handler gives an exception that is neither an HTTPException
\* nor a pydantic ValidationError (main.py lines 217-222)
UnexpectedErrorStatus == 500

\* a handler that goes on to the generation although no strategy succeeded
NoCaptionsGoesOn ==
  /\ pc = "no_captions"
  /\ pc' = "generate"
  /\ UNCHANGED <<callVars, envVars, transcript_list, completion, video_id, metadata,
                 gt_metadata, in_progress, attempts, track_log, idx, n_page_tracks,
                 transcript_data, transcript, flashcards_data, calls, response>>

(***************************************************************************)
(* transcript.py lines 305-309 and main.py lines 217-222: get_transcript   *)
(* raises Exception("Could not fetch transcript ...") and the handler      *)
(* answers it as an unexpected error.                                      *)
(***************************************************************************)
NoCaptions ==
  /\ pc = "no_captions"
  /\ Respond(Error(UnexpectedErrorStatus, "NoCaptions"))
  /\ UNCHANGED <<callVars, envVars, transcript_list, completion, video_id, metadata,
                 gt_metadata, in_progress, attempts, track_log, idx, n_page_tracks,
                 transcript_data, transcript, flashcards_data, calls>>

(***************************************************************************)
(* transcript.py lines 311-347 and main.py lines 157-167: get_transcript   *)
(* assembles its result and the handler checks the text.                   *)
(***************************************************************************)
AssembleTranscript ==
  /\ pc = "assemble"
  /\ transcript' = Assemble(video_id, request.youtube_url, request.language, FALSE,
                            gt_metadata, transcript_data)
  /\ IF transcript'.full_text = ""
     THEN Respond(Error(404, "NoTranscriptText"))
     ELSE pc' = "generate" /\ UNCHANGED response
  /\ UNCHANGED <<callVars, envVars, transcript_list, completion, video_id, metadata,
                 gt_metadata, in_progress, attempts, track_log, idx, n_page_tracks,
                 transcript_data, flashcards_data, calls>>

\* what AIProcessor.generate_flashcards makes of each reply, for each
\* difficulty a request can ask for
GenerateOutcomes ==
  [d \in RequestDifficulties |->
     [reply \in PipelineReplies |-> generate_flashcards(d, reply)]]

\* step 4 of the handler without the check that cards came back
GenerateUnchecked ==
  /\ pc = "generate"
  /\ \E reply \in PipelineReplies :
       LET r == GenerateOutcomes[request.difficulty_level][reply]
       IN  /\ completion' = reply
           /\ IF r.raised # "none"
              THEN Respond(Error(UnexpectedErrorStatus, r.raised))
                   /\ UNCHANGED flashcards_data
              ELSE /\ flashcards_data' = r.value
                   /\ pc' = "build"
                   /\ UNCHANGED response
  /\ calls' = Append(calls, "completion")
  /\ UNCHANGED <<callVars, envVars, transcript_list, video_id, metadata, gt_metadata,
                 in_progress, attempts, track_log, idx, n_page_tracks, transcript_data,
                 transcript>>

(***************************************************************************)
(* main.py lines 169-183 and 217-222: step 4 of the handler.               *)
(***************************************************************************)
Generate ==
  /\ pc = "generate"
  /\ \E reply \in PipelineReplies :
       LET r == GenerateOutcomes[request.difficulty_level][reply]
       IN  /\ completion' = reply
           /\ IF r.raised # "none"
              THEN Respond(Error(UnexpectedErrorStatus, r.raised))
                   /\ UNCHANGED flashcards_data
              ELSE IF r.value = <<>>
              THEN Respond(Error(500, "NoFlashcards")) /\ UNCHANGED flashcards_data
              ELSE /\ flashcards_data' = r.value
                   /\ pc' = "build"
                   /\ UNCHANGED response
  /\ calls' = Append(calls, "completion")
  /\ UNCHANGED <<callVars, envVars, transcript_list, video_id, metadata, gt_metadata,
                 in_progress, attempts, track_log, idx, n_page_tracks, transcript_data,
                 transcript>>

\* the FlashcardSet of lines 198-207; the duration is in whole seconds
FlashcardSet(req, vid, t, cards) ==
  [status |-> 200,
   kind |-> "FlashcardSet",
   video_url |-> req.youtube_url,
   video_title |-> t.video_title,
   video_id |-> vid,
   channel_name |-> t.channel_name,
   duration |-> t.duration \div MsPerSecond,
   flashcards |-> cards,
   transcript_length |-> Len(t.full_text),
   language |-> t.language]

(***************************************************************************)
(* main.py lines 185-216: steps 5 and 6 of the handler; a pydantic         *)
(* ValidationError is answered with 400.                                   *)
(***************************************************************************)
Build ==
  /\ pc = "build"
  /\ \E major \in PydanticMajors :
       IF /\ \A i \in 1..Len(flashcards_data) : FlashcardAccepts(flashcards_data[i])
          /\ DurationAccepted(major, transcript.duration)
       THEN Respond(FlashcardSet(request, video_id, transcript, flashcards_data))
       ELSE Respond(Error(400, "ValidationError"))
  /\ UNCHANGED <<callVars, envVars, transcript_list, completion, video_id, metadata,
                 gt_metadata, in_progress, attempts, track_log, idx, n_page_tracks,
                 transcript_data, transcript, flashcards_data, calls>>

Next ==
  \/ Startup
  \/ Validate
  \/ HandlerExtract
  \/ HandlerMetadata
  \/ GetTranscriptMetadata
  \/ Strategy1
  \/ Strategy2
  \/ Strategy3List
  \/ Strategy3Fetch
  \/ Strategy4Track
  \/ Strategy4Exhausted
  \/ Strategy5Page
  \/ Strategy5Track
  \/ Strategy5Exhausted
  \/ NoCaptions
  \/ AssembleTranscript
  \/ Generate
  \/ Build

Spec == Init /\ [][Next]_vars

\* every call of the request returns or times out, so the step the handler
\* is at is eventually taken
FairSpec == Spec /\ WF_vars(Next)

(***************************************************************************)
(* Functions called on their own, as the test scripts call them: the       *)
(* arguments are drawn at the start, one step makes the call.              *)
(***************************************************************************)
InitCall(args) ==
  /\ pc = "call"
  /\ call_args \in args
  /\ call_result = NoCall
  /\ api_key = "sk-key"
  /\ request \in [youtube_url : {None}, language : {"en"}, difficulty_level : {DiffMixed}]
  /\ src_tracks = <<>>
  /\ Idle

Returns(result) ==
  /\ pc = "call"
  /\ call_result' = result
  /\ pc' = "returned"
  /\ UNCHANGED <<call_args, envVars, transcript_list, video_id, metadata, gt_metadata,
                 in_progress, attempts, track_log, idx, n_page_tracks, transcript_data,
                 transcript, flashcards_data, completion, response, calls>>

\* extract_video_id(url)
InitExtract == InitCall([url : ExtractInputs])
ExtractCall == Returns(extract_video_id(call_args.url))
NextExtract == ExtractCall
SpecExtract == InitExtract /\ [][NextExtract]_vars

\* extract_video_id(url) on the same inputs and on URLs of several shapes at
\* once, each shape with an id of its own
LitAndU == <<"&", "u", "=">>
LitQuestionVEq == <<"?", "v", "=">>
MultiShapeInputs ==
  {PreWatch \o IdRick \o LitAndU \o PreShort \o IdShortUrl,
   PreEmbed \o IdDash \o LitQuestionVEq \o IdRick,
   PreShort \o IdShortUrl \o LitQuestionVEq \o IdRick,
   PreEmbed \o IdDash \o LitAndU \o IdRick}
InitExtractMixed == InitCall([url : ExtractInputs \cup MultiShapeInputs])
NextExtractMixed == ExtractCall
SpecExtractMixed == InitExtractMixed /\ [][NextExtractMixed]_vars

\* get_video_metadata(url), given what the GET of the watch page does
MetadataInputs ==
  {p \o t \o s : p \in {PreBare, PreShort, PreWatch, PreVPath, PreOther},
                 t \in {IdRick, TokTen}, s \in {SufNone, SufNewline}}
InitMetadata == InitCall([url : MetadataInputs, outcome : PageOutcomes])
MetadataCall == Returns(get_video_metadata(call_args.url, call_args.outcome))
NextMetadata == MetadataCall
SpecMetadata == InitMetadata /\ [][NextMetadata]_vars

(***************************************************************************)
(* get_transcript from line 311 on, called on its own: the assembly of the *)
(* result from the segments a strategy returned.                           *)
(***************************************************************************)
\* segments as a caption source delivers them: overlapping, out of order,
\* with an empty text, with an annotation and surrounding blanks
SegIntro == Seg("  [Music] intro ", 0, 9000)
SegHello == Seg("Hello", 1000, 1500)
SegEmpty == Seg("", 2500, 500)
SegLate == Seg("world.", 7000, 1250)
AssemblySegments == {SegIntro, SegHello, SegEmpty, SegLate}
SegmentLists == UNION {[1..n -> AssemblySegments] : n \in 0..MaxSegments}

InitAssemble == InitCall([segments : SegmentLists, preserve_formatting : BOOLEAN])
AssembleCall ==
  Returns(Assemble(IdRick, LitWatchUrl \o IdRick, "en", call_args.preserve_formatting,
                   MinimalMetadata(IdRick),
                   [segments |-> call_args.segments, language |-> "en",
                    is_generated |-> FALSE]))
NextAssemble == AssembleCall
SpecAssemble == InitAssemble /\ [][NextAssemble]_vars

(***************************************************************************)
(* AIProcessor._validate_flashcards called on its own.                     *)
(***************************************************************************)
ValidationCards ==
  {CardGood, CardPadded, CardSuper, CardNoDifficulty, CardShortAnswer, CardTinyAnswer,
   CardNineQ, CardTenThree, CardNumberAnswer, CardNoAnswer, CardEmptyQuestion}
CardLists(cards) == UNION {[1..n -> cards] : n \in 0..MaxCards}
AllDifficulties == CardDifficulties \cup {DiffMixed}

InitValidate ==
  InitCall([flashcards : CardLists(ValidationCards), requested_difficulty : AllDifficulties])
ValidateCall ==
  Returns(validate_flashcards(call_args.flashcards, call_args.requested_difficulty))
NextValidate == ValidateCall
SpecValidate == InitValidate /\ [][NextValidate]_vars

(***************************************************************************)
(* AIProcessor.generate_flashcards called on its own, given the reply of   *)
(* the completion service: the prompt is built, the service is called      *)
(* (line 63) and the reply is parsed and validated.                        *)
(***************************************************************************)
TranscriptLengths == {0, 13, 7999, 8000, 8001, 8003, 8004, 16003}
NumCards == {1, 2}
ReplyCards == {CardGood, CardPadded, CardNineQ, CardNullDifficulty}
Replies ==
  {Reply("raises", FALSE, <<>>), Reply("not_json", FALSE, <<>>), Reply("json", FALSE, <<>>)}
    \cup {Reply("json", TRUE, cards) : cards \in CardLists(ReplyCards)}

InitGenerate ==
  InitCall([transcript : {Text(n) : n \in TranscriptLengths},
            num_cards : NumCards,
            difficulty_level : {DiffMixed, DiffHard},
            reply : Replies])
GenerateCall ==
  /\ pc = "call"
  /\ call_result' =
       [prompt |-> create_user_prompt(call_args.transcript, call_args.num_cards,
                                      call_args.difficulty_level),
        outcome |-> generate_flashcards(call_args.difficulty_level, call_args.reply)]
  /\ calls' = Append(calls, "completion")
  /\ completion' = call_args.reply
  /\ pc' = "returned"
  /\ UNCHANGED <<call_args, envVars, transcript_list, video_id, metadata, gt_metadata,
                 in_progress, attempts, track_log, idx, n_page_tracks, transcript_data,
                 transcript, flashcards_data, response>>
NextGenerate == GenerateCall
SpecGenerate == InitGenerate /\ [][NextGenerate]_vars

(***************************************************************************)
(* TranscriptProcessor.clean_transcript (transcript.py lines 349-365),     *)
(* called on its own.  Texts are tuples of characters.                     *)
(***************************************************************************)
RECURSIVE CollapseWhitespace(_)
\* re.sub(r'\s+', ' ', text), line 355: every run of whitespace becomes one
\* space
CollapseWhitespace(s) ==
  IF s = <<>> THEN <<>>
  ELSE IF Head(s) \notin Whitespace THEN <<Head(s)>> \o CollapseWhitespace(Tail(s))
  ELSE IF Len(s) > 1 /\ s[2] \in Whitespace THEN CollapseWhitespace(Tail(s))
  ELSE <<" ">> \o CollapseWhitespace(Tail(s))

RECURSIVE ClosingAt(_, _, _)
\* where the lazy .*? started before position i stops: the position of the
\* first closing character at or after i that no newline precedes, 0 if
\* there is none (the dot matches no newline)
ClosingAt(s, i, closing) ==
  IF i > Len(s) THEN 0
  ELSE IF s[i] = closing THEN i
  ELSE IF s[i] = "\n" THEN 0
  ELSE ClosingAt(s, i + 1, closing)

RECURSIVE RemoveAnnotations(_, _, _)
\* re.sub(r'\[.*?\]', '', text) and re.sub(r'\(.*?\)', '', text), lines
\* 358-359: the matches are taken from left to right, none overlapping
RemoveAnnotations(s, opening, closing) ==
  IF s = <<>> THEN <<>>
  ELSE IF Head(s) = opening /\ ClosingAt(s, 2, closing) > 0
       THEN RemoveAnnotations(SubSeq(s, ClosingAt(s, 2, closing) + 1, Len(s)),
                              opening, closing)
  ELSE <<Head(s)>> \o RemoveAnnotations(Tail(s), opening, closing)

\* text.replace('\n', ' '), line 362
ReplaceNewlines(s) == [i \in 1..Len(s) |-> IF s[i] = "\n" THEN " " ELSE s[i]]

clean_transcript(text) ==
  LET collapsed == CollapseWhitespace(text)
      unsquared == RemoveAnnotations(collapsed, "[", "]")
      unrounded == RemoveAnnotations(unsquared, "(", ")")
  IN  Strip(ReplaceNewlines(unrounded))

\* the pieces the input texts are made of: a word, the whitespace of a
\* caption text, square brackets one by one and a whole annotation
TextPieces == {<<"h", "i">>, <<" ">>, <<"\n">>, <<"[">>, <<"]">>, <<"(", "x", ")">>}
RECURSIVE TextsOf(_)
TextsOf(n) ==
  IF n = 0 THEN {<<>>}
  ELSE TextsOf(n - 1) \cup {t \o p : t \in TextsOf(n - 1), p \in TextPieces}
CleanInputs == TextsOf(MaxPieces)

InitClean == InitCall([text : CleanInputs])
CleanCall == Returns(clean_transcript(call_args.text))
NextClean == CleanCall
SpecClean == InitClean /\ [][NextClean]_vars

(***************************************************************************)
(* Several requests served by one process.  The handler (main.py line 130) *)
(* is a coroutine that never awaits, so the requests run one after         *)
(* another; all of them use the service objects built once at main.py      *)
(* lines 86-88, and every session.get goes through the one                 *)
(* requests.Session of transcript.py line 27, which sends the cookies of   *)
(* its jar and stores the cookies the response sets.                       *)
(***************************************************************************)
RequestIds == 1..MaxRequests
NewHandler == [pc |-> "waiting", seen |-> <<>>, sent |-> {}, status |-> 0]

\* no request other than i is being handled
NoneElseRunning(i) ==
  \A j \in RequestIds \ {i} : handlers[j].pc \in {"waiting", "done"}

\* the cookies of the jar, as a request sends them
JarCookies == {[name |-> n, by |-> session[n]] : n \in {m \in CookieNames : session[m] # 0}}

\* request i went from pc to next_pc (or ended with status) having seen outcome
Moved(i, next_pc, outcome, status) ==
  [handlers EXCEPT ![i].pc = next_pc,
                   ![i].seen = Append(@, outcome),
                   ![i].status = status]

\* session.get(...) made for request i: the cookies of the jar are sent, the
\* cookies the response sets are stored
SessionGet(i, next_pc, outcome, status, set_cookies) ==
  /\ handlers' = [Moved(i, next_pc, outcome, status) EXCEPT ![i].sent = @ \cup JarCookies]
  /\ session' = [n \in CookieNames |-> IF n \in set_cookies THEN i ELSE session[n]]

sharedFrame == <<pc, callVars, request, src_tracks, api_key, transcript_list, completion,
                 video_id, metadata, gt_metadata, in_progress, attempts, track_log, idx,
                 n_page_tracks, transcript_data, transcript, flashcards_data, response,
                 calls>>

InitShared ==
  /\ pc = "serving"
  /\ api_key = "sk-key"
  /\ request \in [youtube_url : {IdRick}, language : {"en"}, difficulty_level : {DiffMixed}]
  /\ src_tracks = <<>>
  /\ call_args = NoCall
  /\ call_result = NoCall
  /\ Idle

\* the process takes the requests to serve
Arrive ==
  /\ pc = "serving"
  /\ handlers = <<>>
  /\ handlers' = [i \in RequestIds |-> NewHandler]
  /\ UNCHANGED <<sharedFrame, session>>

\* the event loop starts the handler of request i
Accept(i) ==
  /\ handlers # <<>>
  /\ handlers[i].pc = "waiting"
  /\ NoneElseRunning(i)
  /\ handlers' = [handlers EXCEPT ![i].pc = "metadata"]
  /\ UNCHANGED <<sharedFrame, session>>

\* main.py line 153 and transcript.py line 82: the GET of the watch page
SharedMetadata(i) ==
  /\ handlers # <<>>
  /\ handlers[i].pc = "metadata"
  /\ \E set_cookies \in SUBSET CookieNames :
       SessionGet(i, "get_transcript", "page", 0, set_cookies)
  /\ UNCHANGED sharedFrame

\* transcript.py lines 295 and 82: the GET of the watch page, again
SharedGetTranscript(i) ==
  /\ handlers # <<>>
  /\ handlers[i].pc = "get_transcript"
  /\ \E set_cookies \in SUBSET CookieNames :
       SessionGet(i, "chain", "page", 0, set_cookies)
  /\ UNCHANGED sharedFrame

\* transcript.py line 298: strategies 1 to 4, made through ytt_api
SharedChain(i) ==
  /\ handlers # <<>>
  /\ handlers[i].pc = "chain"
  /\ \/ handlers' = Moved(i, "generate", "captions", 0)
     \/ handlers' = Moved(i, "scrape", "no_captions", 0)
  /\ UNCHANGED <<sharedFrame, session>>

\* transcript.py lines 226-275: strategy 5, the GET of the watch page and of
\* a caption track
SharedScrape(i) ==
  /\ handlers # <<>>
  /\ handlers[i].pc = "scrape"
  /\ \E set_cookies \in SUBSET CookieNames :
       \/ SessionGet(i, "generate", "captions", 0, set_cookies)
       \/ SessionGet(i, "done", "no_captions", UnexpectedErrorStatus, set_cookies)
  /\ UNCHANGED sharedFrame

\* main.py lines 171-210: the completion call and the response
SharedGenerate(i) ==
  /\ handlers # <<>>
  /\ handlers[i].pc = "generate"
  /\ \/ handlers' = Moved(i, "done", "cards", 200)
     \/ handlers' = Moved(i, "done", "no_cards", 500)
  /\ UNCHANGED <<sharedFrame, session>>

NextShared ==
  \/ Arrive
  \/ \E i \in RequestIds : Accept(i)
  \/ \E i \in RequestIds : SharedMetadata(i)
  \/ \E i \in RequestIds : SharedGetTranscript(i)
  \/ \E i \in RequestIds : SharedChain(i)
  \/ \E i \in RequestIds : SharedScrape(i)
  \/ \E i \in RequestIds : SharedGenerate(i)
SpecShared == InitShared /\ [][NextShared]_vars

(***************************************************************************)
(* Properties of the request pipeline and of the fallback chain.           *)
(***************************************************************************)
\* the per-track fetches strategy k made, in order
Log(k) == SelectSeq(track_log, LAMBDA e : e.strategy = k)
\* none of the entries of s succeeded
AllFailed(s) == \A i \in 1..Len(s) : ~s[i].ok
\* the chain has ended with the success of its last attempt
ChainWon == attempts # <<>> /\ attempts[Len(attempts)].ok

\* C1: the strategies are attempted in the order 1, 2, 3, 4, 5; strategy k
\* runs only after strategies 1..k-1 have all failed; at most one strategy
\* is in progress; a success is the last attempt of the chain, nothing runs
\* after it, and the chain (and get_transcript) returns that strategy's
\* result.
FallbackChainInOrder ==
  /\ \A i \in 1..Len(attempts) : attempts[i].strategy = i
  /\ \A i \in 1..Len(attempts) : attempts[i].ok => i = Len(attempts)
  /\ Cardinality(in_progress) <= 1
  /\ \A k \in in_progress : Len(attempts) = k - 1 /\ AllFailed(attempts)
  /\ ChainWon =>
       /\ in_progress = {}
       /\ transcript_data = attempts[Len(attempts)].result
       /\ transcript # PyNoneRec =>
            transcript.segments = attempts[Len(attempts)].result.segments

\* C1 is exercised: four strategies failed, the scrape succeeded, and
\* get_transcript returned the scraped segments
ScrapeWonAfterFourFailures ==
  /\ Len(attempts) = 5
  /\ attempts[5].ok
  /\ transcript # PyNoneRec
  /\ Len(Log(4)) >= 1

\* C2, as the specification states it: whenever the chain returns a result
\* its segment sequence is non-empty (a strategy that returns zero segments
\* counts as failed).
WinnerHasSegments ==
  /\ transcript_data # PyNoneRec => transcript_data.segments # <<>>
  /\ \A i \in 1..Len(attempts) : attempts[i].ok => attempts[i].result.segments # <<>>

\* C3: the fetch fails exactly when all five strategies have failed, the
\* failure is the one raised by get_transcript, and no error raised inside a
\* strategy is what the caller gets.
NoCaptionsExactlyWhenAllFail ==
  /\ (pc = "no_captions" \/ response.kind = "NoCaptions")
       <=> (Len(attempts) = 5 /\ AllFailed(attempts))
  /\ (pc = "done" /\ attempts # <<>> /\ AllFailed(attempts))
       => response.kind = "NoCaptions"
  /\ response.kind \notin ApiErrors \cup RequestErrors \cup {"NoTranscriptFound"}

\* C3 is exercised: tracks were listed, every per-track fetch raised, the
\* scrape looked at a track too, and the request ended with NoCaptions
NoCaptionsAfterEveryFetchRaised ==
  /\ pc = "done"
  /\ response.kind = "NoCaptions"
  /\ Len(Log(4)) >= 2
  /\ Len(Log(5)) >= 1

\* C4, as the specification states it: when every strategy is exhausted the
\* caller receives 404 and the completion service is never invoked.
NoCaptionsIsNotFound ==
  response.kind = "NoCaptions" =>
    /\ response.status = 404
    /\ \A i \in 1..Len(calls) : calls[i] # "completion"

\* the URLs of requests from which extract_video_id extracts no id
UrlsWithoutId == {u \in RequestUrls : extract_video_id(u) = None}

\* C5: when no id can be extracted from the URL the request makes no
\* external call at all and, once answered, is answered with a 4xx status.
NoIdNoNetworkCall ==
  request.youtube_url \in UrlsWithoutId =>
    /\ calls = <<>>
    /\ pc \in {"startup", "crashed", "validate", "handler", "done"}
    /\ pc = "done" => response.status \in 400..499

\* C5 is exercised: a URL the request validator let through, from which the
\* handler extracts no id, answered with 400
HandlerRejectedUrl ==
  /\ pc = "done"
  /\ validate_youtube_url(request.youtube_url)
  /\ extract_video_id(request.youtube_url) = None
  /\ response.status = 400

\* no card of the reply survives the validation pass
NoCardSurvives(cards, requested_difficulty) ==
  \A i \in 1..Len(cards) : CardVerdict(cards[i], requested_difficulty) # "keep"
\* the ways generation fails that the specification lists
GenerationFails(reply, requested_difficulty) ==
  \/ reply.kind \in {"raises", "not_json"}
  \/ ~reply.has_key
  \/ NoCardSurvives(reply.flashcards, requested_difficulty)

\* C6: when the completion service was called (captions were obtained) and
\* the generation fails in one of the listed ways, the request ends there
\* with status 500: no success, no 4xx.
GenerationFailureIsServerError ==
  (completion # NoReply /\ GenerationFails(completion, request.difficulty_level)) =>
    /\ pc = "done"
    /\ response.status = 500
    /\ response.kind # "FlashcardSet"

\* C6 is exercised: the reply was JSON with cards under the key, none of
\* which survived the validation
AllCardsDroppedIsServerError ==
  /\ pc = "done"
  /\ completion.kind = "json"
  /\ completion.has_key
  /\ completion.flashcards # <<>>
  /\ NoCardSurvives(completion.flashcards, request.difficulty_level)
  /\ response.status = 500

\* C7: in the loop of strategy 4 the tracks are fetched in enumeration order
\* from the first; a fetch that raises is followed by the fetch of the next
\* track; the strategy returns the first track whose fetch succeeds and fails
\* only when the fetch of every listed track has failed.  A raising fetch in
\* strategy 3 is followed by strategy 4.
EnumerationSkipsBadTracks ==
  LET log3 == Log(3)
      log4 == Log(4)
  IN  /\ \A j \in 1..Len(log4) : log4[j].index = j /\ (log4[j].ok => j = Len(log4))
      /\ pc = "s4" => Len(log4) = idx - 1 /\ AllFailed(log4)
      /\ (Len(attempts) >= 4 /\ attempts[4].ok) =>
           /\ log4 # <<>>
           /\ log4[Len(log4)].ok
           /\ attempts[4].result.segments = transcript_list.tracks[Len(log4)].segments
           /\ attempts[4].result.language = transcript_list.tracks[Len(log4)].language
      /\ (Len(attempts) >= 4 /\ ~attempts[4].ok /\ transcript_list.listed) =>
           /\ Len(log4) = Len(transcript_list.tracks)
           /\ AllFailed(log4)
      /\ (log3 # <<>> /\ ~log3[1].ok) =>
           /\ Len(attempts) >= 3
           /\ ~attempts[3].ok
           /\ pc = "s4" \/ Len(attempts) >= 4

\* C7 is exercised: the fetch of the first listed track raised and strategy 4
\* returned the second
SecondTrackWonAfterFirstRaised ==
  /\ Len(attempts) = 4
  /\ attempts[4].ok
  /\ Len(Log(4)) = 2
  /\ ~Log(4)[1].ok

\* C8: when strategies 1 and 2 failed, no listed track has the requested
\* language and strategy 4 fetched track B, get_transcript returns B's
\* segments, B's language and B's is_generated flag.
FirstFetchableTrackIsReturned ==
  (/\ transcript # PyNoneRec
   /\ Len(attempts) = 4
   /\ attempts[4].ok
   /\ find_transcript(src_tracks, <<request.language>>) = 0) =>
     LET B == src_tracks[Len(Log(4))]
     IN  /\ ~attempts[1].ok /\ ~attempts[2].ok /\ ~attempts[3].ok
         /\ transcript.segments = B.segments
         /\ transcript.language = B.language
         /\ transcript.is_generated = B.is_generated

\* C8 is exercised: track B is the second track and is auto-generated, the
\* first track is not
GeneratedSecondTrackReturned ==
  /\ transcript # PyNoneRec
  /\ Len(attempts) = 4
  /\ attempts[4].ok
  /\ find_transcript(src_tracks, <<request.language>>) = 0
  /\ Len(Log(4)) = 2
  /\ src_tracks[2].is_generated
  /\ ~src_tracks[1].is_generated
  /\ transcript.is_generated

(***************************************************************************)
(* Properties of get_video_metadata called on its own.                     *)
(***************************************************************************)
\* the record returned when the page request fails: the three keys only
DegradedRecord(r, vid) ==
  /\ r.video_id = vid
  /\ r.video_title = "Unknown Title"
  /\ r.video_url = LitWatchUrl \o vid
  /\ r.channel_name = Absent
  /\ ~r.description.present
  /\ r.duration_iso = Absent

\* what the call must have done, given the outcome of the page request
ReturnedMetadata ==
  /\ call_result.raised = "none"
  /\ call_result.value.video_id = extract_video_id(call_args.url)
  /\ call_args.outcome.error \in RequestErrors =>
       DegradedRecord(call_result.value, extract_video_id(call_args.url))

ValidIds == {t \in UrlTokens : Len(t) = IdLen /\ \A i \in 1..Len(t) : t[i] \in IdChars}
SupportedPrefixes ==
  {PreShort, PreShortBare, PreWatch, PreWatchMobile, PreEmbed, PreEmbedNocookie,
   PreWatchList}
\* u is one of the supported shapes carrying id
Carries(u, id) ==
  \/ u = id
  \/ \E p \in SupportedPrefixes, s \in UrlSuffixes : u = p \o id \o s

\* C10, as the specification states it: every supported shape carrying an id
\* yields exactly that id, and a string of no supported shape yields null.
ExtractsExactlyTheShapes ==
  pc = "returned" =>
    /\ \A id \in ValidIds : Carries(call_args.url, id) => call_result = id
    /\ (\A id \in ValidIds : ~Carries(call_args.url, id)) => call_result = None

(***************************************************************************)
(* Properties of the assembly called on its own.                           *)
(***************************************************************************)
\* the ends of the segments, and the greatest of a non-empty set of numbers
SegmentEnds(segments) == {segments[i].start + segments[i].duration : i \in 1..Len(segments)}
Greatest(S) == CHOOSE m \in S : \A e \in S : e <= m

\* C11: the duration of the result is the greatest start + duration over the
\* segments, whatever their order, and 0 when there are none.
DurationIsGreatestEnd ==
  pc = "returned" =>
    call_result.duration = IF call_args.segments = <<>> THEN 0
                           ELSE Greatest(SegmentEnds(call_args.segments))

\* C11 is exercised: the segment that ends last is not the last segment
EarlierSegmentEndsLast ==
  /\ pc = "returned"
  /\ Len(call_args.segments) = 3
  /\ call_args.segments[1] = SegIntro
  /\ call_args.segments[3] = SegHello
  /\ call_result.duration = 9000

\* the texts joined from the left, one separator between neighbours
JoinedUpTo(segments, sep, n) ==
  LET upto[i \in 0..n] ==
        IF i = 0 THEN ""
        ELSE IF i = 1 THEN segments[1].text
        ELSE upto[i - 1] \o sep \o segments[i].text
  IN  upto[n]

\* C12: full_text is the texts of all segments, in order and as they are,
\* joined with a newline when preserve_formatting is true and with one space
\* when it is false; the segments of the result are the segments given.
FullTextIsJoinedTexts ==
  pc = "returned" =>
    /\ call_result.segments = call_args.segments
    /\ call_result.full_text =
         JoinedUpTo(call_args.segments,
                    IF call_args.preserve_formatting THEN "\n" ELSE " ",
                    Len(call_args.segments))

\* C12 is exercised: an annotated text with blanks and an empty text are
\* joined as they are
AnnotatedAndEmptyTextsJoined ==
  /\ pc = "returned"
  /\ call_args.segments = <<SegIntro, SegEmpty, SegLate>>
  /\ ~call_args.preserve_formatting
  /\ call_result.full_text = "  [Music] intro   world."

(***************************************************************************)
(* Properties of the validation pass called on its own.                    *)
(***************************************************************************)
RECURSIVE Trimmed(_)
\* s without the blanks at its ends
Trimmed(s) ==
  IF s = <<>> THEN s
  ELSE IF Head(s) \in {" ", "\n", "\t", "\r"} THEN Trimmed(Tail(s))
  ELSE IF s[Len(s)] \in {" ", "\n", "\t", "\r"} THEN Trimmed(SubSeq(s, 1, Len(s) - 1))
  ELSE s

\* the rule of the specification: question and answer present and not empty,
\* 10 characters or more of trimmed question, 3 or more of trimmed answer
PresentNotEmpty(v) == v.kind \in {"str", "number"} /\ v.chars # <<>>
KeepRule(card) ==
  /\ PresentNotEmpty(card.question)
  /\ PresentNotEmpty(card.answer)
  /\ Len(Trimmed(card.question.chars)) >= 10
  /\ Len(Trimmed(card.answer.chars)) >= 3

RuleDifficulty(card, requested_difficulty) ==
  IF card.difficulty.kind = "str" /\ Lower(card.difficulty.chars) \in {DiffEasy, DiffMedium, DiffHard}
  THEN Lower(card.difficulty.chars)
  ELSE IF requested_difficulty = DiffMixed THEN DiffMedium
  ELSE requested_difficulty

\* C14, as the specification states it: whenever the pass returns, each kept
\* card has the lowercased raw difficulty when that is easy, medium or hard,
\* else medium for a request of mixed and the requested difficulty otherwise;
\* so it is always one of easy, medium, hard.
DifficultyNormalized ==
  (pc = "returned" /\ call_result.raised = "none") =>
    LET kept == SelectSeq(call_args.flashcards, KeepRule)
        out  == call_result.value
    IN  /\ Len(out) = Len(kept)
        /\ \A j \in 1..Len(out) :
             /\ out[j].difficulty = RuleDifficulty(kept[j], call_args.requested_difficulty)
             /\ out[j].difficulty \in {DiffEasy, DiffMedium, DiffHard}

(***************************************************************************)
(* Properties of generate_flashcards called on its own.                    *)
(***************************************************************************)
\* out[j] is the card made of the raw card at position f[j]
MadeFrom(out, raw, f) ==
  \A j \in 1..Len(out) :
    /\ raw[f[j]].question.kind = "str"
    /\ out[j].question = Trimmed(raw[f[j]].question.chars)
    /\ out[j].answer = Trimmed(raw[f[j]].answer.chars)
    /\ out[j].topic = IF raw[f[j]].topic = Absent THEN "General" ELSE raw[f[j]].topic
\* f picks positions of raw in ascending order, none twice
Ascending(f, n) == \A i, j \in 1..n : i < j => f[i] < f[j]

\* C15: whenever generate_flashcards returns, the cards are made of raw
\* cards of the reply taken in their order, none twice and none added, and
\* there are as many as raw cards satisfy the rule, whatever num_cards is.
ReturnedIsSubsequence ==
  (pc = "returned" /\ call_result.outcome.raised = "none") =>
    LET raw == IF call_args.reply.has_key THEN call_args.reply.flashcards ELSE <<>>
        out == call_result.outcome.value
    IN  /\ Len(out) <= Len(raw)
        /\ \E f \in [1..Len(out) -> 1..Len(raw)] : Ascending(f, Len(out)) /\ MadeFrom(out, raw, f)
        /\ Len(out) = Len(SelectSeq(raw, KeepRule))

\* C15 is exercised: one card was asked for, three came, the second was
\* dropped and the two others came back in their order
MoreCardsThanAskedFor ==
  /\ pc = "returned"
  /\ call_args.num_cards = 1
  /\ call_args.reply.flashcards = <<CardPadded, CardGood>>
  /\ call_result.outcome.raised = "none"
  /\ Len(call_result.outcome.value) = 2
  /\ call_result.outcome.value[2].topic = "Basics"

\* C16: a transcript longer than 8000 characters is embedded as its first
\* 8000 characters followed by "...", a transcript of 8000 or fewer as it is
\* without marker; the embedded text never exceeds 8003 characters.
TranscriptTruncated ==
  pc = "returned" =>
    LET n == call_args.transcript.len
        e == call_result.prompt.transcript
    IN  /\ n > 8000 => e.kept = 8000 /\ e.marker = "..."
        /\ n <= 8000 => e.kept = n /\ e.marker = ""
        /\ e.kept + Len(e.marker) <= 8003

\* C16 is exercised: a transcript of 8001 characters loses one and gets the
\* marker
LongTranscriptMarked ==
  /\ pc = "returned"
  /\ call_args.transcript.len = 8001
  /\ call_result.prompt.transcript.kept = 8000
  /\ call_result.prompt.transcript.marker = "..."

\* how often the completion service was called
CompletionCalls == Cardinality({i \in 1..Len(calls) : calls[i] = "completion"})

\* C17: a reply that is not JSON makes generate_flashcards raise ValueError,
\* which no failure of the call itself raises (that is a plain Exception),
\* and the completion service is called once, whatever the outcome.
NotJsonIsDistinctFailure ==
  pc = "returned" =>
    /\ call_args.reply.kind = "not_json" <=> call_result.outcome.raised = "ValueError"
    /\ call_args.reply.kind = "raises" => call_result.outcome.raised = "Exception"
    /\ CompletionCalls <= 1

\* C17 is exercised: the reply was not JSON
NotJsonReplyRaised ==
  /\ pc = "returned"
  /\ call_args.reply.kind = "not_json"
  /\ call_result.outcome.raised = "ValueError"
  /\ CompletionCalls = 1

(***************************************************************************)
(* Properties of the start of the process and of the order of the stages.  *)
(***************************************************************************)
\* C18: with no key configured (the variable unset or empty) the process
\* fails when it starts: no request is ever handled, so no watch page, no
\* caption service and no completion service is ever called, and the start
\* is not tried again.
NoKeyNoCall ==
  api_key \in {Absent, ""} =>
    /\ pc \in {"startup", "crashed"}
    /\ calls = <<>>
    /\ response = NoResponse
    /\ completion = NoReply

\* C18 is exercised: the variable is unset and the start has failed
CrashedWithoutKey ==
  /\ pc = "crashed"
  /\ api_key = Absent
  /\ calls = <<>>

\* the calls to the caption service and to caption-track URLs
CaptionCalls == {"captions_fetch", "captions_list", "track_fetch", "track_url"}

\* C19: the caption fetch starts only after both metadata fetches returned;
\* while a strategy runs nothing is assembled and the completion service is
\* not called; the transcript is assembled only after a strategy succeeded;
\* the completion service is called only after that, with a text, and it is
\* the last call of the request; the first call is the watch page for the
\* metadata.
StagesInOrder ==
  /\ (in_progress # {} \/ attempts # <<>>) =>
       /\ metadata # PyNoneRec
       /\ gt_metadata # PyNoneRec
       /\ calls # <<>> /\ calls[1] = "watch_page"
  /\ in_progress # {} => (transcript = PyNoneRec /\ completion = NoReply)
  /\ transcript # PyNoneRec => (ChainWon /\ in_progress = {})
  /\ completion # NoReply =>
       /\ ChainWon
       /\ transcript # PyNoneRec
       /\ transcript.full_text # ""
  /\ \A i \in 1..Len(calls) :
       /\ calls[i] = "completion" => i = Len(calls)
       /\ calls[i] \in CaptionCalls => (i > 1 /\ calls[1] = "watch_page")
  /\ \A i, j \in 1..Len(calls) :
       (calls[i] = "completion" /\ calls[j] \in CaptionCalls) => j < i

\* C19 is exercised: a request went through all four stages
AllStagesDone ==
  /\ pc = "done"
  /\ response.status = 200
  /\ calls[1] = "watch_page"
  /\ calls[Len(calls)] = "completion"
  /\ \E i \in 1..Len(calls) : calls[i] \in CaptionCalls

(***************************************************************************)
(* Properties of several requests served by one process.                   *)
(***************************************************************************)
\* the status that follows from what a request saw of its own calls
StatusFromOwnCalls(seen) ==
  IF seen[Len(seen)] = "cards" THEN 200 ELSE 500

\* C20, as the specification states it: the response of each request follows
\* from its own input and the outcomes of its own calls, and nothing a
\* request reads from the shared service objects was written while another
\* request was served (every cookie it sends was set by a response to one of
\* its own calls).
RequestsIsolated ==
  \A i \in DOMAIN handlers :
    /\ handlers[i].pc = "done" => handlers[i].status = StatusFromOwnCalls(handlers[i].seen)
    /\ \A c \in handlers[i].sent : c.by = i

\* C21: in strategy 5 a failure on one caption track (the request throws,
\* the body is not JSON, the status is not 200, the track yields no
\* segments) sends the loop to the next listed track, and the strategy
\* fails only when every listed track has been tried without yielding
\* segments.
ScrapeTriesEveryTrack ==
  /\ \A i \in 1..Len(Log(5)) : Log(5)[i].index = i
  /\ (pc = "s5_track" /\ idx <= n_page_tracks) => Len(Log(5)) = idx - 1
  /\ (Len(attempts) = 5 /\ ~attempts[5].ok /\ pc # "s5_page") =>
       Len(Log(5)) = n_page_tracks

\* a raw record with nothing wrong: it satisfies the rule and its difficulty,
\* if present, is a string
WellFormed(card) == KeepRule(card) /\ card.difficulty.kind \in {"str", "missing"}

\* C22: the pass treats each raw record on its own: for a reply that parses
\* as JSON the pass never fails as a whole, and a malformed record (a null
\* difficulty, say) costs at most itself, so that every well-formed record
\* of the reply is returned, in order.
RecordsValidatedIndependently ==
  (pc = "returned" /\ call_args.reply.kind = "json") =>
    LET raw  == IF call_args.reply.has_key THEN call_args.reply.flashcards ELSE <<>>
        good == SelectSeq(raw, WellFormed)
    IN  /\ call_result.outcome.raised = "none"
        /\ LET out == call_result.outcome.value
           IN  \E f \in [1..Len(good) -> 1..Len(out)] :
                 /\ Ascending(f, Len(good))
                 /\ \A j \in 1..Len(good) :
                      out[f[j]].question = Trimmed(good[j].question.chars)

\* between two positions of s an opening character comes before its closing
\* character
HasAnnotation(s, opening, closing) ==
  \E i, j \in 1..Len(s) : i < j /\ s[i] = opening /\ s[j] = closing

\* C23: for every input text the output of clean_transcript has no run of
\* two or more whitespace characters, no square-bracket or parenthesis
\* annotation, and no whitespace at either end.
CleanedIsTidy ==
  pc = "returned" =>
    LET out == call_result
    IN  /\ \A i \in 1..(Len(out) - 1) : ~(out[i] \in Whitespace /\ out[i + 1] \in Whitespace)
        /\ ~HasAnnotation(out, "[", "]")
        /\ ~HasAnnotation(out, "(", ")")
        /\ out # <<>> => (out[1] \notin Whitespace /\ out[Len(out)] \notin Whitespace)

\* the caption tracks listed to the request so far: by list() and by the
\* watch page of the scrape
TracksListed == Len(transcript_list.tracks) + n_page_tracks
\* the external calls of one request that do not depend on the tracks: two
\* metadata fetches, two direct fetches, list() and the fetch of the track
\* found by find_transcript, the watch page of the scrape, the completion
FixedCalls == 2 + 2 + 2 + 1 + 1
\* the responses of the handler: the FlashcardSet and the three errors
HandlerStatuses == {200, 400, 404, 500}
\* the request has passed the validator of the request model
Accepted == pc \notin {"startup", "crashed", "validate"} /\ response.status # 422

\* C24: every external call returning or timing out, an accepted request
\* ends with one response, which is a FlashcardSet, a 400, a 404 or a 500:
\* a response once given is never replaced and nothing is called after it,
\* and the external calls of the request number at most a constant plus
\* the caption tracks listed.
AcceptedRequestTerminates ==
  /\ [](Accepted =>
          /\ Len(calls) <= FixedCalls + TracksListed
          /\ pc = "done" <=> response # NoResponse
          /\ response # NoResponse =>
               /\ response.status \in HandlerStatuses
               /\ response.status = 200 <=> response.kind = "FlashcardSet")
  /\ [][response # NoResponse => (response' = response /\ calls' = calls)]_vars
  /\ (pc = "handler") ~> (pc = "done")

\* C24 is exercised: a request that made every call it can make (both
\* metadata fetches, every strategy, every listed track, the completion)
\* has been answered
LongestRequestAnswered ==
  /\ pc = "done"
  /\ response.status = 200
  /\ TracksListed = 2 * MaxTracks
  /\ Len(calls) = FixedCalls + TracksListed

\* C25: whenever the caption fetch yielded a text that is not empty and the
\* validation pass returned at least one card, the request is answered with
\* a FlashcardSet whose flashcards are the validated cards in their order:
\* building the Flashcard records and the FlashcardSet rejects nothing the
\* pass accepted (a trimmed answer of 3 or 4 characters included).
ValidatedCardsAreAnswered ==
  (pc = "done" /\ transcript # PyNoneRec /\ flashcards_data # <<>>) =>
    /\ transcript.full_text # ""
    /\ response.kind = "FlashcardSet"
    /\ response.flashcards = flashcards_data

\* the id each rule finds in u, in the order of the rules: short link,
\* standard v=, embed, bare id; None where the rule does not match
RuleIds(u) ==
  <<IF Contains(u, LitYoutuBe) THEN SearchIdAfter(u, LitYoutuBeSlash) ELSE None,
    IF Contains(u, LitYoutubeCom) THEN SearchIdAfter(u, LitVEq) ELSE None,
    SearchIdAfter(u, LitEmbed),
    IF MatchBareId(u) THEN u ELSE None>>

\* C26: a value extract_video_id returns that is not null has exactly 11
\* characters, all of the class [0-9A-Za-z_-], and stands in the input as a
\* contiguous substring; when several rules match, the id of the earliest
\* rule (short link, standard v=, embed, bare id) is the one returned.
ExtractedIsAnId ==
  (pc = "returned" /\ call_result # None) =>
    LET u == call_args.url
        matching == {k \in 1..4 : RuleIds(u)[k] # None}
    IN  /\ Len(call_result) = IdLen
        /\ \A i \in 1..Len(call_result) : call_result[i] \in IdChars
        /\ Contains(u, call_result)
        /\ matching # {} /\ call_result = RuleIds(u)[Min(matching)]

\* the requests of the watch page made for the metadata: those at the head
\* of the calls (the scrape asks for the page only after the caption calls)
MetadataFetches ==
  Cardinality({i \in 1..Len(calls) : \A j \in 1..i : calls[j] = "watch_page"})

\* C27: within one request the metadata is fetched exactly once: the watch
\* page is requested for it a single time, before the caption fetch, and
\* the title and channel name of the response are those of that fetch.
MetadataFetchedOnce ==
  /\ MetadataFetches <= 1
  /\ (in_progress # {} \/ attempts # <<>>) => MetadataFetches = 1
  /\ response.kind = "FlashcardSet" =>
       /\ response.video_title = metadata.video_title
       /\ response.channel_name = Get(metadata.channel_name, PyNone)

====
